---- MODULE Spec2Model ----
(***************************************************************************)
(* InfraSync: the change-classification and risk-analysis pipeline.        *)
(*   pkg/parser   ParsePlan / classifyChange / toMap                       *)
(*   pkg/analyzer AnalyzeChanges and its rule groups                       *)
(* A run decodes a plan, folds its resource change records into a          *)
(* PlanSummary, hands the summary to the risk analyzer and exits with the  *)
(* code determineExitCode computes from the summary and the warnings.      *)
(***************************************************************************)
EXTENDS Integers, Sequences, FiniteSets, TLC

VARIABLES plan, flags, pc, idx, summary, warnings, output, exitCode

vars == <<plan, flags, pc, idx, summary, warnings, output, exitCode>>

----------------------------------------------------------------------------
(* Bounds of the model.                                                    *)

\* longest action sequence of a record of a one-record plan
MaxActions == 3
\* longest plan
MaxPlanLen == 2
\* largest backup retention (days) of a snapshot
MaxRetention == 2

----------------------------------------------------------------------------
(* strings.ToLower and strings.Contains over ASCII strings.                *)

UpperLetters == "ABCDEFGHIJKLMNOPQRSTUVWXYZ"
LowerLetters == "abcdefghijklmnopqrstuvwxyz"

\* position of each upper-case letter in UpperLetters
UpperIndex ==
    [c \in {SubSeq(UpperLetters, k, k) : k \in 1..Len(UpperLetters)} |->
        CHOOSE j \in 1..Len(UpperLetters) : SubSeq(UpperLetters, j, j) = c]

ToLowerChar(c) ==
    IF c \in DOMAIN UpperIndex
    THEN SubSeq(LowerLetters, UpperIndex[c], UpperIndex[c])
    ELSE c

RECURSIVE ToLower(_)
ToLower(s) ==
    IF Len(s) = 0 THEN ""
    ELSE ToLowerChar(SubSeq(s, 1, 1)) \o ToLower(SubSeq(s, 2, Len(s)))

Contains(s, substr) ==
    \E k \in 1..(Len(s) - Len(substr) + 1) : SubSeq(s, k, k + Len(substr) - 1) = substr

----------------------------------------------------------------------------
(* Decoded JSON values (interface{} after json.Unmarshal): null, bool,     *)
(* float64, string, []interface{} and map[string]interface{}.              *)

JSONNull == [kind |-> "nil"]
JSONBool(b) == [kind |-> "bool", b |-> b]
JSONNumber(n) == [kind |-> "number", n |-> n]
JSONString(s) == [kind |-> "string", s |-> s]
JSONList(items) == [kind |-> "list", items |-> items]
JSONObject(kv) == [kind |-> "map", kv |-> kv]

\* A Go map[string]interface{}: nil, or allocated with its key/value pairs.
EmptyKV == [k \in {} |-> JSONNull]
NilMap == [isNil |-> TRUE, kv |-> EmptyKV]
MakeMap == [isNil |-> FALSE, kv |-> EmptyKV]

\* tfjson action names; Action is a string type, "read" is the name of a
\* data source read and stands for every name the classifier does not list.
ActionCreate == "create"
ActionDelete == "delete"
ActionUpdate == "update"
ActionNoop == "no-op"
ActionRead == "read"
ActionNames == {ActionCreate, ActionDelete, ActionUpdate, ActionNoop, ActionRead}

----------------------------------------------------------------------------
(* pkg/parser                                                              *)

\* The zero ResourceChange.
ZeroResourceChange ==
    [Address |-> "", Type |-> "", Actions |-> <<>>,
     Before |-> NilMap, After |-> NilMap,
     IsCreate |-> FALSE, IsUpdate |-> FALSE, IsDelete |-> FALSE,
     IsReplace |-> FALSE, IsNoOp |-> FALSE,
     BeforeSensitive |-> JSONNull, AfterSensitive |-> JSONNull, AfterUnknown |-> JSONNull]

\* The zero PlanSummary (a nil Changes slice, all counters 0).
ZeroPlanSummary ==
    [TerraformVersion |-> "", FormatVersion |-> "",
     Changes |-> <<>>, ChangesNil |-> TRUE,
     ToCreate |-> 0, ToUpdate |-> 0, ToDelete |-> 0, ToReplace |-> 0, NoChanges |-> 0]

\* toMap without its nil branch allocating: a nil source yields a nil map.
toMap_NilForNil(v) ==
    IF v.kind = "nil" THEN NilMap
    ELSE IF v.kind = "map" THEN [isNil |-> FALSE, kv |-> v.kv]
    ELSE MakeMap

\* toMap safely converts interface{} to map[string]interface{}.
toMap(v) ==
    IF v.kind = "nil" THEN MakeMap
    ELSE IF v.kind = "map" THEN [isNil |-> FALSE, kv |-> v.kv]
    ELSE MakeMap

\* The nested change object of a record: a *tfjson.Change, nil when absent.
NilChange ==
    [present |-> FALSE, Actions |-> <<>>, Before |-> JSONNull, After |-> JSONNull,
     BeforeSensitive |-> JSONNull, AfterSensitive |-> JSONNull, AfterUnknown |-> JSONNull]

\* A change object with its actions, snapshots, sensitivity markers and
\* after-unknown marker.
ChangeWith(actions, before, after, beforeSensitive, afterSensitive, afterUnknown) ==
    [present |-> TRUE, Actions |-> actions, Before |-> before, After |-> after,
     BeforeSensitive |-> beforeSensitive, AfterSensitive |-> afterSensitive,
     AfterUnknown |-> afterUnknown]

\* A change object without markers.
ChangeOf(actions, before, after) ==
    ChangeWith(actions, before, after, JSONNull, JSONNull, JSONNull)

\* classifyChange dereferences rc.Change without a nil check.
classifyChangePanics(rc) == ~rc.Change.present

\* The defect of the predecessor: a delete among the actions wins, so a
\* destroy-and-recreate is a plain delete.
classifyFlags_DeleteFirst(change, actions) ==
    IF \E k \in 1..Len(actions) : actions[k] = ActionDelete
    THEN [change EXCEPT !.IsDelete = TRUE]
    ELSE IF Len(actions) = 1
    THEN CASE actions[1] = ActionCreate -> [change EXCEPT !.IsCreate = TRUE]
           [] actions[1] = ActionUpdate -> [change EXCEPT !.IsUpdate = TRUE]
           [] actions[1] = ActionNoop -> [change EXCEPT !.IsNoOp = TRUE]
           [] OTHER -> change
    ELSE change

\* The single-action switch with the no-op case left out.
classifyFlags_NoNoopCase(change, actions) ==
    LET hasDelete == \E k \in 1..Len(actions) : actions[k] = ActionDelete
        hasCreate == \E k \in 1..Len(actions) : actions[k] = ActionCreate
    IN  IF Len(actions) = 2 /\ hasDelete /\ hasCreate
        THEN [change EXCEPT !.IsReplace = TRUE]
        ELSE IF Len(actions) = 1
        THEN CASE actions[1] = ActionCreate -> [change EXCEPT !.IsCreate = TRUE]
               [] actions[1] = ActionDelete -> [change EXCEPT !.IsDelete = TRUE]
               [] actions[1] = ActionUpdate -> [change EXCEPT !.IsUpdate = TRUE]
               [] OTHER -> change
        ELSE change

\* A replace also flagged as the delete it contains.
classifyFlags_ReplaceIsAlsoDelete(change, actions) ==
    LET hasDelete == \E k \in 1..Len(actions) : actions[k] = ActionDelete
        hasCreate == \E k \in 1..Len(actions) : actions[k] = ActionCreate
    IN  IF Len(actions) = 2 /\ hasDelete /\ hasCreate
        THEN [change EXCEPT !.IsReplace = TRUE, !.IsDelete = TRUE]
        ELSE IF Len(actions) = 1
        THEN CASE actions[1] = ActionCreate -> [change EXCEPT !.IsCreate = TRUE]
               [] actions[1] = ActionDelete -> [change EXCEPT !.IsDelete = TRUE]
               [] actions[1] = ActionUpdate -> [change EXCEPT !.IsUpdate = TRUE]
               [] actions[1] = ActionNoop -> [change EXCEPT !.IsNoOp = TRUE]
               [] OTHER -> change
        ELSE change

\* The replace test without the length test: a delete and a create anywhere
\* among the actions make a replace.
classifyFlags_ReplaceAmongMany(change, actions) ==
    LET hasDelete == \E k \in 1..Len(actions) : actions[k] = ActionDelete
        hasCreate == \E k \in 1..Len(actions) : actions[k] = ActionCreate
    IN  IF hasDelete /\ hasCreate
        THEN [change EXCEPT !.IsReplace = TRUE]
        ELSE IF Len(actions) = 1
        THEN CASE actions[1] = ActionCreate -> [change EXCEPT !.IsCreate = TRUE]
               [] actions[1] = ActionDelete -> [change EXCEPT !.IsDelete = TRUE]
               [] actions[1] = ActionUpdate -> [change EXCEPT !.IsUpdate = TRUE]
               [] actions[1] = ActionNoop -> [change EXCEPT !.IsNoOp = TRUE]
               [] OTHER -> change
        ELSE change

\* The flags classifyChange sets from the action sequence.
classifyFlags(change, actions) ==
    LET hasDelete == \E k \in 1..Len(actions) : actions[k] = ActionDelete
        hasCreate == \E k \in 1..Len(actions) : actions[k] = ActionCreate
    IN  IF Len(actions) = 2 /\ hasDelete /\ hasCreate
        THEN [change EXCEPT !.IsReplace = TRUE]
        ELSE IF Len(actions) = 1
        THEN CASE actions[1] = ActionCreate -> [change EXCEPT !.IsCreate = TRUE]
               [] actions[1] = ActionDelete -> [change EXCEPT !.IsDelete = TRUE]
               [] actions[1] = ActionUpdate -> [change EXCEPT !.IsUpdate = TRUE]
               [] actions[1] = ActionNoop -> [change EXCEPT !.IsNoOp = TRUE]
               [] OTHER -> change
        ELSE change

\* classifyChange determines the type of change for a resource.
classifyChange(rc) ==
    LET change == [ZeroResourceChange EXCEPT
                     !.Address = rc.Address,
                     !.Type = rc.Type,
                     !.Actions = rc.Change.Actions,
                     !.Before = toMap(rc.Change.Before),
                     !.After = toMap(rc.Change.After),
                     !.BeforeSensitive = rc.Change.BeforeSensitive,
                     !.AfterSensitive = rc.Change.AfterSensitive,
                     !.AfterUnknown = rc.Change.AfterUnknown]
    IN  classifyFlags(change, rc.Change.Actions)

\* The fold counting a replace as a delete as well.
foldChange_ReplaceCountsDelete(s, change) ==
    [s EXCEPT
       !.Changes = Append(s.Changes, change),
       !.ToCreate = IF change.IsCreate THEN @ + 1 ELSE @,
       !.ToUpdate = IF change.IsUpdate THEN @ + 1 ELSE @,
       !.ToDelete = IF change.IsDelete \/ change.IsReplace THEN @ + 1 ELSE @,
       !.ToReplace = IF change.IsReplace THEN @ + 1 ELSE @,
       !.NoChanges = IF change.IsNoOp THEN @ + 1 ELSE @]

\* The fold putting each Change in front of the ones before it.
foldChange_Prepend(s, change) ==
    [s EXCEPT
       !.Changes = <<change>> \o s.Changes,
       !.ToCreate = IF change.IsCreate THEN @ + 1 ELSE @,
       !.ToUpdate = IF change.IsUpdate THEN @ + 1 ELSE @,
       !.ToDelete = IF change.IsDelete THEN @ + 1 ELSE @,
       !.ToReplace = IF change.IsReplace THEN @ + 1 ELSE @,
       !.NoChanges = IF change.IsNoOp THEN @ + 1 ELSE @]

\* One iteration of ParsePlan's loop: append the Change, count its flags.
foldChange(s, change) ==
    [s EXCEPT
       !.Changes = Append(s.Changes, change),
       !.ToCreate = IF change.IsCreate THEN @ + 1 ELSE @,
       !.ToUpdate = IF change.IsUpdate THEN @ + 1 ELSE @,
       !.ToDelete = IF change.IsDelete THEN @ + 1 ELSE @,
       !.ToReplace = IF change.IsReplace THEN @ + 1 ELSE @,
       !.NoChanges = IF change.IsNoOp THEN @ + 1 ELSE @]

\* The summary declared without make: Changes stays a nil slice.
newPlanSummary_NilChanges == ZeroPlanSummary

\* The PlanSummary ParsePlan starts from: Changes is make([]ResourceChange, 0).
newPlanSummary == [ZeroPlanSummary EXCEPT !.ChangesNil = FALSE]

----------------------------------------------------------------------------
(* pkg/analyzer                                                            *)

RiskCritical == "critical"
RiskHigh == "high"
RiskMedium == "medium"
RiskLow == "low"

Warning(level, change, message, explanation) ==
    [Level |-> level, Resource |-> change.Address, Type |-> change.Type,
     Message |-> message, Explanation |-> explanation]

\* containsAny comparing for equality: the type has to be a listed name.
containsAny_ExactMatch(s, substrs) ==
    LET lower == ToLower(s)
    IN  \E k \in 1..Len(substrs) : lower = ToLower(substrs[k])

containsAny(s, substrs) ==
    LET lower == ToLower(s)
    IN  \E k \in 1..Len(substrs) : Contains(lower, ToLower(substrs[k]))

dbTypes == <<"aws_db_instance", "aws_rds", "google_sql_database",
             "azurerm_sql_database", "aws_dynamodb_table", "postgresql", "mysql">>
storageTypes == <<"aws_s3_bucket", "google_storage_bucket",
                  "azurerm_storage_account", "aws_ebs_volume">>
networkTypes == <<"aws_vpc", "aws_subnet", "google_compute_network",
                  "azurerm_virtual_network">>
computeTypes == <<"aws_instance", "google_compute_instance",
                  "azurerm_virtual_machine", "aws_ecs_service", "aws_lambda_function">>
lbTypes == <<"aws_lb", "aws_elb", "aws_alb", "google_compute_forwarding_rule",
             "azurerm_lb">>
sgTypes == <<"aws_security_group", "google_compute_firewall",
             "azurerm_network_security_group">>

isDatabase(resourceType) == containsAny(resourceType, dbTypes)
isStorage(resourceType) == containsAny(resourceType, storageTypes)
isNetwork(resourceType) == containsAny(resourceType, networkTypes)
isCompute(resourceType) == containsAny(resourceType, computeTypes)
isLoadBalancer(resourceType) == containsAny(resourceType, lbTypes)
isSecurityGroup(resourceType) == containsAny(resourceType, sgTypes)

\* getBool taking the string "true" for the boolean.
getBool_TruthyString(m, key) ==
    IF key \in DOMAIN m.kv /\ m.kv[key].kind = "bool" THEN m.kv[key].b
    ELSE key \in DOMAIN m.kv /\ m.kv[key] = JSONString("true")

\* m[key] of a Go map, with the comma-ok type assertions of the helpers.
getBool(m, key) ==
    IF key \in DOMAIN m.kv /\ m.kv[key].kind = "bool" THEN m.kv[key].b ELSE FALSE

getNumber(m, key) ==
    IF key \in DOMAIN m.kv /\ m.kv[key].kind = "number" THEN m.kv[key].n ELSE 0

getStringSlice(m, key) ==
    IF key \in DOMAIN m.kv /\ m.kv[key].kind = "list"
    THEN LET items == m.kv[key].items
             strs == SelectSeq(items, LAMBDA it : it.kind = "string")
         IN  [k \in 1..Len(strs) |-> strs[k].s]
    ELSE <<>>

\* hasSecurityGroupWeakening testing the IPv4 block only.
hasSecurityGroupWeakening_IPv4Only(before, after) ==
    LET beforeCidr == getStringSlice(before, "cidr_blocks")
        afterCidr == getStringSlice(after, "cidr_blocks")
    IN  \E k \in 1..Len(afterCidr) :
            /\ afterCidr[k] = "0.0.0.0/0"
            /\ ~\E j \in 1..Len(beforeCidr) : beforeCidr[j] = afterCidr[k]

\* hasSecurityGroupWeakening without the search in before.
hasSecurityGroupWeakening_AnyOpenAfter(before, after) ==
    LET afterCidr == getStringSlice(after, "cidr_blocks")
    IN  \E k \in 1..Len(afterCidr) :
            afterCidr[k] = "0.0.0.0/0" \/ afterCidr[k] = "::/0"

hasSecurityGroupWeakening(before, after) ==
    LET beforeCidr == getStringSlice(before, "cidr_blocks")
        afterCidr == getStringSlice(after, "cidr_blocks")
    IN  \E k \in 1..Len(afterCidr) :
            /\ afterCidr[k] = "0.0.0.0/0" \/ afterCidr[k] = "::/0"
            /\ ~\E j \in 1..Len(beforeCidr) : beforeCidr[j] = afterCidr[k]

encryptionKeys == <<"encryption", "encrypted", "enable_encryption", "encryption_enabled">>

\* hasEncryptionDisabled firing on any change of a flag.
hasEncryptionDisabled_AnyChange(before, after) ==
    \E k \in 1..Len(encryptionKeys) :
        getBool(before, encryptionKeys[k]) # getBool(after, encryptionKeys[k])

hasEncryptionDisabled(before, after) ==
    \E k \in 1..Len(encryptionKeys) :
        getBool(before, encryptionKeys[k]) /\ ~getBool(after, encryptionKeys[k])

backupKeys == <<"versioning", "backup_enabled", "enable_backup",
                "backup_retention_days", "backup_retention_period">>

\* hasBackupDisabled firing on every reduction of a number.
hasBackupDisabled_AnyReduction(before, after) ==
    \E k \in 1..Len(backupKeys) :
        \/ getBool(before, backupKeys[k]) /\ ~getBool(after, backupKeys[k])
        \/ getNumber(before, backupKeys[k]) > getNumber(after, backupKeys[k])

hasBackupDisabled(before, after) ==
    \E k \in 1..Len(backupKeys) :
        \/ getBool(before, backupKeys[k]) /\ ~getBool(after, backupKeys[k])
        \/ getNumber(before, backupKeys[k]) > 0 /\ getNumber(after, backupKeys[k]) = 0

\* The delete rules with the production test pr, the level sl of the storage
\* rule, and chained (each rule only when none before it fired) or not.
deleteRulesWith(change, pr, sl, chained) ==
    LET w1 == IF pr
              THEN <<Warning(RiskCritical, change, "Production resource will be DESTROYED",
                             "Deleting production resources can cause service outages")>>
              ELSE <<>>
        w2 == IF isDatabase(change.Type) /\ ~(chained /\ w1 # <<>>)
              THEN <<Warning(RiskCritical, change, "Database will be DESTROYED - data loss risk!",
                             "Ensure backups are in place before deleting databases")>>
              ELSE <<>>
        w3 == IF isStorage(change.Type) /\ ~(chained /\ w1 \o w2 # <<>>)
              THEN <<Warning(sl, change, "Storage resource will be DESTROYED - potential data loss",
                             "Verify data is backed up or migrated before deletion")>>
              ELSE <<>>
        w4 == IF isNetwork(change.Type) /\ ~(chained /\ w1 \o w2 \o w3 # <<>>)
              THEN <<Warning(RiskHigh, change, "Network resource will be DESTROYED - connectivity impact",
                             "This may affect connectivity for other resources")>>
              ELSE <<>>
    IN  w1 \o w2 \o w3 \o w4

ProductionAddress(change) ==
    \/ Contains(ToLower(change.Address), "prod")
    \/ Contains(ToLower(change.Address), "production")

\* analyzeDelete with the storage rule rated critical.
analyzeDelete_StorageCritical(change) ==
    deleteRulesWith(change, ProductionAddress(change), RiskCritical, FALSE)

\* analyzeDelete matching "prod" without lower-casing the address.
analyzeDelete_ProdCaseSensitive(change) ==
    deleteRulesWith(change,
                    Contains(change.Address, "prod") \/ Contains(change.Address, "production"),
                    RiskHigh, FALSE)

\* analyzeDelete as an else-if chain: the first rule that fires is the only one.
analyzeDelete_FirstRuleOnly(change) ==
    deleteRulesWith(change, ProductionAddress(change), RiskHigh, TRUE)

\* analyzeDelete with the database rule rated high instead of critical.
analyzeDelete_DatabaseHigh(change) ==
    (IF \/ Contains(ToLower(change.Address), "prod")
        \/ Contains(ToLower(change.Address), "production")
     THEN <<Warning(RiskCritical, change, "Production resource will be DESTROYED",
                    "Deleting production resources can cause service outages")>>
     ELSE <<>>)
    \o
    (IF isDatabase(change.Type)
     THEN <<Warning(RiskHigh, change, "Database will be DESTROYED - data loss risk!",
                    "Ensure backups are in place before deleting databases")>>
     ELSE <<>>)
    \o
    (IF isStorage(change.Type)
     THEN <<Warning(RiskHigh, change, "Storage resource will be DESTROYED - potential data loss",
                    "Verify data is backed up or migrated before deletion")>>
     ELSE <<>>)
    \o
    (IF isNetwork(change.Type)
     THEN <<Warning(RiskHigh, change, "Network resource will be DESTROYED - connectivity impact",
                    "This may affect connectivity for other resources")>>
     ELSE <<>>)

\* analyzeDelete checks for critical deletions.
analyzeDelete(change) ==
    (IF \/ Contains(ToLower(change.Address), "prod")
        \/ Contains(ToLower(change.Address), "production")
     THEN <<Warning(RiskCritical, change, "Production resource will be DESTROYED",
                    "Deleting production resources can cause service outages")>>
     ELSE <<>>)
    \o
    (IF isDatabase(change.Type)
     THEN <<Warning(RiskCritical, change, "Database will be DESTROYED - data loss risk!",
                    "Ensure backups are in place before deleting databases")>>
     ELSE <<>>)
    \o
    (IF isStorage(change.Type)
     THEN <<Warning(RiskHigh, change, "Storage resource will be DESTROYED - potential data loss",
                    "Verify data is backed up or migrated before deletion")>>
     ELSE <<>>)
    \o
    (IF isNetwork(change.Type)
     THEN <<Warning(RiskHigh, change, "Network resource will be DESTROYED - connectivity impact",
                    "This may affect connectivity for other resources")>>
     ELSE <<>>)

\* analyzeReplace checks for risky replacements.
analyzeReplace(change) ==
    (IF isDatabase(change.Type)
     THEN <<Warning(RiskCritical, change, "Database will be REPLACED - downtime expected!",
                    "Database recreation causes downtime and potential data loss")>>
     ELSE <<>>)
    \o
    (IF isCompute(change.Type)
     THEN <<Warning(RiskHigh, change, "Compute instance will be REPLACED - downtime expected",
                    "Instance recreation causes service interruption")>>
     ELSE <<>>)
    \o
    (IF isLoadBalancer(change.Type)
     THEN <<Warning(RiskHigh, change, "Load balancer will be REPLACED - traffic interruption",
                    "This may cause temporary service unavailability")>>
     ELSE <<>>)

\* analyzeUpdate with the backup rule rated medium.
analyzeUpdate_BackupMedium(change) ==
    (IF isSecurityGroup(change.Type) /\ hasSecurityGroupWeakening(change.Before, change.After)
     THEN <<Warning(RiskHigh, change, "Security group rules are being relaxed",
                    "Review that new permissions don't expose services unnecessarily")>>
     ELSE <<>>)
    \o
    (IF hasEncryptionDisabled(change.Before, change.After)
     THEN <<Warning(RiskCritical, change, "Encryption is being DISABLED",
                    "Disabling encryption is a serious security risk")>>
     ELSE <<>>)
    \o
    (IF hasBackupDisabled(change.Before, change.After)
     THEN <<Warning(RiskMedium, change, "Backup or versioning is being DISABLED",
                    "This increases risk of data loss")>>
     ELSE <<>>)

\* analyzeUpdate checks for risky attribute updates.
analyzeUpdate(change) ==
    (IF isSecurityGroup(change.Type) /\ hasSecurityGroupWeakening(change.Before, change.After)
     THEN <<Warning(RiskHigh, change, "Security group rules are being relaxed",
                    "Review that new permissions don't expose services unnecessarily")>>
     ELSE <<>>)
    \o
    (IF hasEncryptionDisabled(change.Before, change.After)
     THEN <<Warning(RiskCritical, change, "Encryption is being DISABLED",
                    "Disabling encryption is a serious security risk")>>
     ELSE <<>>)
    \o
    (IF hasBackupDisabled(change.Before, change.After)
     THEN <<Warning(RiskHigh, change, "Backup or versioning is being DISABLED",
                    "This increases risk of data loss")>>
     ELSE <<>>)

\* The loop body running the delete rules on a replace as well.
analyzeChange_ReplaceRunsDelete(change) ==
    (IF change.IsDelete \/ change.IsReplace THEN analyzeDelete(change) ELSE <<>>)
    \o (IF change.IsReplace THEN analyzeReplace(change) ELSE <<>>)
    \o (IF change.IsUpdate THEN analyzeUpdate(change) ELSE <<>>)

\* The loop body as an if / else-if / else: the update rules are the default.
analyzeChange_UpdateRulesByDefault(change) ==
    IF change.IsDelete THEN analyzeDelete(change)
    ELSE IF change.IsReplace THEN analyzeReplace(change)
    ELSE analyzeUpdate(change)

\* The Warnings one Change adds in AnalyzeChanges' loop body.
analyzeChange(change) ==
    (IF change.IsDelete THEN analyzeDelete(change) ELSE <<>>)
    \o (IF change.IsReplace THEN analyzeReplace(change) ELSE <<>>)
    \o (IF change.IsUpdate THEN analyzeUpdate(change) ELSE <<>>)

\* The loop putting the Warnings of each Change in front of the ones before.
RECURSIVE analyzeFrom_LastFirst(_, _)
analyzeFrom_LastFirst(changes, k) ==
    IF k > Len(changes) THEN <<>>
    ELSE analyzeFrom_LastFirst(changes, k + 1) \o analyzeChange(changes[k])

RECURSIVE analyzeFrom(_, _)
analyzeFrom(changes, k) ==
    IF k > Len(changes) THEN <<>>
    ELSE analyzeChange(changes[k]) \o analyzeFrom(changes, k + 1)

\* AnalyzeChanges detects risky operations in the plan.
AnalyzeChanges(s) == analyzeFrom(s.Changes, 1)

----------------------------------------------------------------------------
(* Terminal output.  An item of the output is a piece of text with the     *)
(* color it is written in ("" for fmt.Printf); the functions of            *)
(* fatih/color that take a format (color.Green, ...) end the text with a   *)
(* newline.  The texts written by one range over a Go map come in no       *)
(* specified order: they are kept as an unordered group, the set of the    *)
(* blocks written for each key.  A character outside ASCII, and the        *)
(* backquote, is written <U+hex>.                                          *)

Text(color, text) == [color |-> color, text |-> text]
Printf(text) == Text("", text)
Colorln(color, text) == Text(color, text \o "\n")
Unordered(blocks) ==
    IF blocks \ {<<>>} = {} THEN <<>> ELSE <<[unordered |-> blocks \ {<<>>}]>>

RECURSIVE Repeat(_, _)
Repeat(str, n) == IF n = 0 THEN "" ELSE str \o Repeat(str, n - 1)

RECURSIVE Flatten(_)
Flatten(seqs) == IF seqs = <<>> THEN <<>> ELSE Head(seqs) \o Flatten(Tail(seqs))

\* strconv.Quote (the verb %q) of a string of printable ASCII characters.
RECURSIVE Escape(_)
Escape(str) ==
    IF Len(str) = 0 THEN ""
    ELSE LET c == SubSeq(str, 1, 1)
         IN  (IF c = "\"" \/ c = "\\" THEN "\\" \o c ELSE c) \o Escape(SubSeq(str, 2, Len(str)))

Quote(str) == "\"" \o Escape(str) \o "\""

----------------------------------------------------------------------------
(* pkg/formatter                                                           *)

NewCLIFormatter(showUnchanged, verbose) ==
    [ShowUnchanged |-> showUnchanged, Verbose |-> verbose]

\* formatValue; the numbers of the model are whole, %.0f prints their digits.
formatValue(v) ==
    CASE v.kind = "nil" -> "null"
      [] v.kind = "string" ->
            IF Len(v.s) > 60 THEN SubSeq(v.s, 1, 60) \o "..." ELSE Quote(v.s)
      [] v.kind = "bool" -> IF v.b THEN "true" ELSE "false"
      [] v.kind = "number" -> ToString(v.n)
      [] v.kind = "map" -> "{...}"
      [] v.kind = "list" -> "[" \o ToString(Len(v.items)) \o " items]"

\* toMap of the formatter package.
formatterToMap(v) ==
    IF v.kind = "nil" THEN MakeMap
    ELSE IF v.kind = "map" THEN [isNil |-> FALSE, kv |-> v.kv]
    ELSE MakeMap

isSensitiveKey(key, beforeSensitive, afterSensitive) ==
    \/ /\ beforeSensitive.kind = "map"
       /\ key \in DOMAIN beforeSensitive.kv
       /\ beforeSensitive.kv[key] = JSONBool(TRUE)
    \/ /\ afterSensitive.kind = "map"
       /\ key \in DOMAIN afterSensitive.kv
       /\ afterSensitive.kv[key] = JSONBool(TRUE)

\* printAttributes: every attribute with its formatted value.
printAttributes(attrs, indent, color) ==
    Unordered({LET valStr == formatValue(attrs.kv[key])
               IN  IF valStr # ""
                   THEN <<Colorln(color, indent \o "  " \o key \o ": " \o valStr)>>
                   ELSE <<>> :
               key \in DOMAIN attrs.kv})

\* What printAttributeDiff writes for one key.
printAttributeDiffKey(key, before, after, afterUnknownMap, beforeSensitive, afterSensitive, indent) ==
    LET existsBefore == key \in DOMAIN before.kv
        existsAfter == key \in DOMAIN after.kv
        isUnknown == key \in DOMAIN afterUnknownMap.kv
        isSensitive == isSensitiveKey(key, beforeSensitive, afterSensitive)
    IN  IF isUnknown
        THEN <<Colorln("cyan", indent \o "  <U+2022> " \o key \o ": (known after apply)")>>
        ELSE IF existsBefore /\ existsAfter
        THEN LET beforeStr == IF isSensitive THEN "(sensitive)"
                              ELSE formatValue(before.kv[key])
                 afterStr == IF isSensitive THEN "(sensitive)"
                             ELSE formatValue(after.kv[key])
             IN  IF beforeStr # afterStr
                 THEN <<Colorln("yellow", indent \o "  ~ " \o key \o ": " \o beforeStr
                                              \o " <U+2192> " \o afterStr)>>
                 ELSE <<>>
        ELSE IF existsAfter
        THEN <<Colorln("green", indent \o "  + " \o key \o ": "
                  \o (IF isSensitive THEN "(sensitive)" ELSE formatValue(after.kv[key])))>>
        ELSE IF existsBefore
        THEN <<Colorln("red", indent \o "  - " \o key \o ": "
                  \o (IF isSensitive THEN "(sensitive)" ELSE formatValue(before.kv[key])))>>
        ELSE <<>>

printAttributeDiff(before, after, afterUnknown, beforeSensitive, afterSensitive, indent) ==
    LET afterUnknownMap == formatterToMap(afterUnknown)
        allKeys == DOMAIN before.kv \cup DOMAIN after.kv
    IN  Unordered({printAttributeDiffKey(key, before, after, afterUnknownMap,
                                         beforeSensitive, afterSensitive, indent) :
                   key \in allKeys})

printStatistics(f, s) ==
    LET total == s.ToCreate + s.ToUpdate + s.ToReplace + s.ToDelete
    IN  <<Colorln("cyan", "Changes Overview:"),
          Colorln("cyan", Repeat("<U+2500>", 17))>>
        \o (IF s.ToCreate > 0
            THEN <<Colorln("green", "  <U+2713> " \o ToString(s.ToCreate) \o " to create")>>
            ELSE <<>>)
        \o (IF s.ToUpdate > 0
            THEN <<Colorln("yellow", "  ~ " \o ToString(s.ToUpdate) \o " to update")>>
            ELSE <<>>)
        \o (IF s.ToReplace > 0
            THEN <<Colorln("magenta", "  <U+27F3> " \o ToString(s.ToReplace) \o " to replace")>>
            ELSE <<>>)
        \o (IF s.ToDelete > 0
            THEN <<Colorln("red", "  <U+2717> " \o ToString(s.ToDelete) \o " to destroy")>>
            ELSE <<>>)
        \o (IF s.NoChanges > 0 /\ f.ShowUnchanged
            THEN <<Colorln("white", "  <U+2022> " \o ToString(s.NoChanges) \o " unchanged")>>
            ELSE <<>>)
        \o (IF total = 0 /\ s.NoChanges > 0
            THEN <<Colorln("green", "\n  All resources are up-to-date!")>>
            ELSE <<>>)

\* filterChanges with the predicate that reads the flag of a Change.
filterChanges(changes, flag) == SelectSeq(changes, LAMBDA c : c[flag])

\* The section of printChangesByType for the Changes cs: nothing for none,
\* else the two header lines and what is written for each Change.
Section(cs, color, title, written) ==
    IF Len(cs) = 0 THEN <<>>
    ELSE <<Colorln(color, title \o " (" \o ToString(Len(cs)) \o "):"),
           Colorln(color, Repeat("<U+2500>", 28))>>
         \o Flatten(written)

\* printChangesByType: the creates, the updates, the replaces, the deletes.
printChangesByType(f, s) ==
    LET creates == filterChanges(s.Changes, "IsCreate")
        updates == filterChanges(s.Changes, "IsUpdate")
        replaces == filterChanges(s.Changes, "IsReplace")
        deletes == filterChanges(s.Changes, "IsDelete")
        diff(c) == printAttributeDiff(c.Before, c.After, c.AfterUnknown,
                                      c.BeforeSensitive, c.AfterSensitive, "    ")
    IN  Section(creates, "green", "\n<U+2713> Resources to CREATE",
                [k \in 1..Len(creates) |->
                    <<Colorln("green", "  + " \o creates[k].Address),
                      Colorln("hi-black", "    Type: " \o creates[k].Type)>>
                    \o (IF f.Verbose
                        THEN printAttributes(creates[k].After, "    ", "hi-green")
                        ELSE <<>>)])
        \o Section(updates, "yellow", "\n~ Resources to UPDATE",
                   [k \in 1..Len(updates) |->
                       <<Colorln("yellow", "  ~ " \o updates[k].Address),
                         Colorln("hi-black", "    Type: " \o updates[k].Type)>>
                       \o diff(updates[k])])
        \o Section(replaces, "magenta", "\n<U+27F3> Resources to REPLACE",
                   [k \in 1..Len(replaces) |->
                       <<Colorln("magenta", "  <U+27F3> " \o replaces[k].Address),
                         Colorln("hi-black", "    Type: " \o replaces[k].Type),
                         Colorln("hi-yellow",
                                 "    <U+26A0> This resource will be destroyed and recreated")>>
                       \o (IF f.Verbose THEN diff(replaces[k]) ELSE <<>>)])
        \o Section(deletes, "red", "\n<U+2717> Resources to DESTROY",
                   [k \in 1..Len(deletes) |->
                       <<Colorln("red", "  - " \o deletes[k].Address),
                         Colorln("hi-black", "    Type: " \o deletes[k].Type)>>
                       \o (IF f.Verbose
                           THEN printAttributes(deletes[k].Before, "    ", "hi-red")
                           ELSE <<>>)])
        \o <<Printf("\n")>>

\* Format outputs the plan summary to the terminal.
Format(f, s) ==
    <<Printf("\n"),
      Colorln("cyan", Repeat("<U+2550>", 55)),
      Colorln("cyan", "  Terraform Plan Summary"),
      Colorln("cyan", Repeat("<U+2550>", 55)),
      Printf("\n"),
      Printf("Terraform Version: " \o s.TerraformVersion \o "\n"),
      Printf("Format Version: " \o s.FormatVersion \o "\n\n")>>
    \o printStatistics(f, s)
    \o <<Printf("\n")>>
    \o (IF Len(s.Changes) = 0
        THEN <<Colorln("green", "<U+2713> No changes detected. Infrastructure is up-to-date.")>>
        ELSE printChangesByType(f, s))

\* PrintWarnings prints the warning about destructive changes.
PrintWarnings(f, s) ==
    IF s.ToDelete > 0 \/ s.ToReplace > 0
    THEN <<Printf("\n"),
           Text("bg-red fg-white bold", " <U+26A0> WARNING "),
           Colorln("red", " This plan includes destructive changes!")>>
         \o (IF s.ToDelete > 0
             THEN <<Colorln("red", "  <U+2192> " \o ToString(s.ToDelete)
                                       \o " resource(s) will be DESTROYED")>>
             ELSE <<>>)
         \o (IF s.ToReplace > 0
             THEN <<Colorln("red", "  <U+2192> " \o ToString(s.ToReplace)
                                       \o " resource(s) will be REPLACED (destroyed and recreated)")>>
             ELSE <<>>)
         \o <<Colorln("yellow", "\n  Please review carefully before applying."),
              Printf("\n")>>
    ELSE <<>>

----------------------------------------------------------------------------
(* cmd/infrasync                                                           *)

HasCritical(w) == \E k \in 1..Len(w) : w[k].Level = RiskCritical

\* determineExitCode with the no-op counter among the counters it tests.
determineExitCode_CountsNoOp(s, w) ==
    IF /\ s.ToCreate = 0 /\ s.ToUpdate = 0 /\ s.ToDelete = 0 /\ s.ToReplace = 0
       /\ s.NoChanges = 0
    THEN 0
    ELSE IF HasCritical(w) THEN 2
    ELSE 1

\* determineExitCode with the update counter left out of its first test.
determineExitCode_IgnoresUpdates(s, w) ==
    IF s.ToCreate = 0 /\ s.ToDelete = 0 /\ s.ToReplace = 0
    THEN 0
    ELSE IF HasCritical(w) THEN 2
    ELSE 1

determineExitCode(s, w) ==
    IF s.ToCreate = 0 /\ s.ToUpdate = 0 /\ s.ToDelete = 0 /\ s.ToReplace = 0
    THEN 0
    ELSE IF HasCritical(w) THEN 2
    ELSE 1

filterWarnings(ws, level) == SelectSeq(ws, LAMBDA w : w.Level = level)

\* One block of printWarningsCLI: the Warnings of a level, with or without
\* their explanations.
WarningsBlock(ws, color, title, rule, explained) ==
    IF Len(ws) = 0 THEN <<>>
    ELSE <<Colorln(color, title \o " (" \o ToString(Len(ws)) \o "):"),
           Colorln(color, Repeat("<U+2500>", rule))>>
         \o Flatten([k \in 1..Len(ws) |->
                <<Colorln(color, "  <U+2022> " \o ws[k].Message),
                  Colorln("hi-black", "    Resource: " \o ws[k].Resource)>>
                \o (IF explained THEN <<Colorln("hi-black", "    " \o ws[k].Explanation)>>
                    ELSE <<>>)])
         \o <<Printf("\n")>>

printWarningsCLI(ws) ==
    IF Len(ws) = 0 THEN <<>>
    ELSE <<Printf("\n"),
           Text("bg-yellow fg-black bold", " <U+1F50D> SECURITY & RISK ANALYSIS "),
           Printf("\n\n")>>
         \o WarningsBlock(filterWarnings(ws, RiskCritical), "red",
                          "<U+1F6A8> CRITICAL WARNINGS", 25, TRUE)
         \o WarningsBlock(filterWarnings(ws, RiskHigh), "yellow",
                          "<U+26A0><U+FE0F>  HIGH RISK WARNINGS", 26, TRUE)
         \o WarningsBlock(filterWarnings(ws, RiskMedium), "cyan",
                          "<U+2139><U+FE0F>  MEDIUM RISK WARNINGS", 28, FALSE)

\* One block of formatWarningsMarkdown.
WarningsMarkdown(ws, title) ==
    IF Len(ws) = 0 THEN ""
    ELSE LET item(w) == "- **" \o w.Message \o "**\n"
                            \o "  - Resource: <U+0060>" \o w.Resource \o "<U+0060>\n"
                            \o "  - " \o w.Explanation \o "\n"
             RECURSIVE items(_)
             items(k) == IF k > Len(ws) THEN "" ELSE item(ws[k]) \o items(k + 1)
         IN  title \o items(1) \o "\n"

formatWarningsMarkdown(ws) ==
    IF Len(ws) = 0 THEN ""
    ELSE "\n### <U+1F50D> Security & Risk Analysis\n\n"
         \o WarningsMarkdown(filterWarnings(ws, RiskCritical),
                             "#### <U+1F6A8> Critical Warnings\n\n")
         \o WarningsMarkdown(filterWarnings(ws, RiskHigh),
                             "#### <U+26A0><U+FE0F> High Risk Warnings\n\n")

\* The report of the markdown formatter: a text that is a function of the
\* formatter's settings and of the summary.
MarkdownFormat(full, compact, showUnchanged, s) ==
    [markdown |-> [full |-> full, compact |-> compact, showUnchanged |-> showUnchanged,
                   summary |-> s]]

\* The markdown output of main: the report and the warnings section.
markdownOutput(fl, s, ws) ==
    <<MarkdownFormat(~fl.compact, fl.compact, fl.showUnchanged, s)>>
    \o (IF Len(ws) > 0 THEN <<Printf("\n" \o formatWarningsMarkdown(ws))>> ELSE <<>>)

\* The terminal output of the cli case of main.
cliOutput(fl, s, ws) ==
    LET cliFormatter == NewCLIFormatter(fl.showUnchanged, fl.verbose)
    IN  Format(cliFormatter, s)
        \o (IF Len(ws) > 0 THEN printWarningsCLI(ws) ELSE <<>>)
        \o PrintWarnings(cliFormatter, s)

----------------------------------------------------------------------------
(* cmd/infrasyncli                                                         *)

\* The printable ASCII characters in byte order (without the backquote).
AsciiChars ==
    " !\"#$%&'()*+,-./0123456789:;<=>?@ABCDEFGHIJKLMNOPQRSTUVWXYZ[\\]^_abcdefghijklmnopqrstuvwxyz{|}~"

AsciiIndex ==
    [c \in {SubSeq(AsciiChars, k, k) : k \in 1..Len(AsciiChars)} |->
        CHOOSE j \in 1..Len(AsciiChars) : SubSeq(AsciiChars, j, j) = c]

\* a < b for Go strings: byte-wise lexicographic order.
RECURSIVE StringLess(_, _)
StringLess(a, b) ==
    IF Len(b) = 0 THEN FALSE
    ELSE IF Len(a) = 0 THEN TRUE
    ELSE LET x == AsciiIndex[SubSeq(a, 1, 1)]
             y == AsciiIndex[SubSeq(b, 1, 1)]
         IN  IF x # y THEN x < y
             ELSE StringLess(SubSeq(a, 2, Len(a)), SubSeq(b, 2, Len(b)))

\* The keys of a map in the order fmt prints them: sorted.
RECURSIVE SortedKeys(_)
SortedKeys(keys) ==
    IF keys = {} THEN <<>>
    ELSE LET first == CHOOSE k \in keys : \A j \in keys \ {k} : StringLess(k, j)
         IN  <<first>> \o SortedKeys(keys \ {first})

RECURSIVE Join(_, _)
Join(strs, sep) ==
    IF Len(strs) = 0 THEN ""
    ELSE IF Len(strs) = 1 THEN strs[1]
    ELSE strs[1] \o sep \o Join(Tail(strs), sep)

\* fmt.Sprintf("%v", v) of a decoded JSON value (whole numbers).
RECURSIVE Sprintv(_)
Sprintv(v) ==
    CASE v.kind = "nil" -> "<nil>"
      [] v.kind = "bool" -> IF v.b THEN "true" ELSE "false"
      [] v.kind = "number" -> ToString(v.n)
      [] v.kind = "string" -> v.s
      [] v.kind = "list" ->
            "[" \o Join([k \in 1..Len(v.items) |-> Sprintv(v.items[k])], " ") \o "]"
      [] v.kind = "map" ->
            LET keys == SortedKeys(DOMAIN v.kv)
            IN  "map[" \o Join([k \in 1..Len(keys) |->
                                   keys[k] \o ":" \o Sprintv(v.kv[keys[k]])], " ") \o "]"

\* m[key] of a map that may be nil: the value, or nil for a missing key.
getMapValue(v, key) ==
    IF v.kind = "map" /\ key \in DOMAIN v.kv THEN v.kv[key] ELSE JSONNull

\* printAttributeDiff of infrasyncli, on interface{} values.
RECURSIVE infrasyncli_printAttributeDiff(_, _, _, _, _, _)
infrasyncli_printAttributeDiff(before, after, afterUnknown, beforeSensitive, afterSensitive, indent) ==
    LET okBefore == before.kind = "map"
        okAfter == after.kind = "map"
        exists(m, key) == m.kind = "map" /\ key \in DOMAIN m.kv
        keysOf(m) == IF m.kind = "map" THEN DOMAIN m.kv ELSE {}
        block(key) ==
            LET valBefore == getMapValue(before, key)
                valAfter == getMapValue(after, key)
                isKeySensitive ==
                    \/ getMapValue(beforeSensitive, key) = JSONBool(TRUE)
                    \/ getMapValue(afterSensitive, key) = JSONBool(TRUE)
            IN  IF exists(afterUnknown, key)
                THEN <<Colorln("cyan", indent \o "  <U+2022> " \o key \o ": (known after apply)")>>
                ELSE IF exists(before, key) /\ exists(after, key)
                THEN IF Sprintv(valBefore) # Sprintv(valAfter)
                     THEN IF valBefore.kind = "map"
                          THEN <<Colorln("yellow", indent \o "~ " \o key \o ":")>>
                               \o infrasyncli_printAttributeDiff(
                                      valBefore, valAfter, JSONNull,
                                      getMapValue(beforeSensitive, key),
                                      getMapValue(afterSensitive, key),
                                      indent \o "    ")
                          ELSE <<Colorln("yellow", indent \o "  ~ " \o key \o ": "
                                    \o (IF isKeySensitive THEN "(sensitive)"
                                        ELSE Sprintv(valBefore))
                                    \o " -> "
                                    \o (IF isKeySensitive THEN "(sensitive)"
                                        ELSE Sprintv(valAfter)))>>
                     ELSE <<>>
                ELSE IF exists(after, key)
                THEN <<Colorln("green", indent \o "  + " \o key \o ": "
                          \o (IF isKeySensitive THEN "(sensitive)" ELSE Sprintv(valAfter)))>>
                ELSE IF exists(before, key)
                THEN <<Colorln("red", indent \o "  - " \o key \o ": "
                          \o (IF isKeySensitive THEN "(sensitive)" ELSE Sprintv(valBefore)))>>
                ELSE <<>>
    IN  IF ~okBefore /\ ~okAfter
        THEN IF Sprintv(before) # Sprintv(after)
             THEN LET isSensitive == \/ beforeSensitive = JSONBool(TRUE)
                                     \/ afterSensitive = JSONBool(TRUE)
                  IN  <<Colorln("yellow", indent \o "  ~ "
                           \o (IF isSensitive THEN "(sensitive)" ELSE Sprintv(before))
                           \o " -> "
                           \o (IF isSensitive THEN "(sensitive)" ELSE Sprintv(after)))>>
             ELSE <<>>
        ELSE Unordered({block(key) :
                        key \in keysOf(before) \cup keysOf(after) \cup keysOf(afterUnknown)})

\* printDiff indexes rc.Change.Actions[0] of a nil change object or of an
\* empty action list.
printDiffPanics(rc) == ~rc.Change.present \/ Len(rc.Change.Actions) = 0

\* printDiff: the line of the record, chosen by its first action.
printDiff(rc) ==
    LET action == rc.Change.Actions[1]
        name == rc.Address \o " (" \o rc.Type \o ")"
    IN  CASE action = ActionCreate -> <<Colorln("green", "+ " \o name)>>
          [] action = ActionDelete -> <<Colorln("red", "- " \o name)>>
          [] action = ActionUpdate ->
                <<Colorln("yellow", "~ " \o name)>>
                \o infrasyncli_printAttributeDiff(
                       rc.Change.Before, rc.Change.After, rc.Change.AfterUnknown,
                       rc.Change.BeforeSensitive, rc.Change.AfterSensitive, "  ")
          [] OTHER -> <<Printf("  " \o name \o " - Actions: ["
                                \o Join(rc.Change.Actions, " ") \o "]\n")>>

\* The loop of main over the records from record k on: what it prints, and
\* whether a printDiff panicked.
RECURSIVE printDiffsFrom(_, _)
printDiffsFrom(rcs, k) ==
    IF k > Len(rcs) THEN [out |-> <<>>, panicked |-> FALSE]
    ELSE IF printDiffPanics(rcs[k]) THEN [out |-> <<>>, panicked |-> TRUE]
    ELSE LET rest == printDiffsFrom(rcs, k + 1)
         IN  [out |-> printDiff(rcs[k]) \o rest.out, panicked |-> rest.panicked]

\* the plan file both commands are given
PlanFile == "tfplan.json"

\* main of infrasyncli from the decoded plan on.
infrasyncliMain(p) ==
    LET header ==
            <<Printf("Successfully parsed plan file: " \o PlanFile \o "\n"),
              Printf("Terraform Version: " \o p.TerraformVersion \o "\n"),
              Printf("Format Version: " \o p.FormatVersion \o "\n")>>
        diffs == printDiffsFrom(p.ResourceChanges, 1)
    IN  IF p.ResourceChangesNil
        THEN [out |-> header \o <<Printf("No resource changes found in the plan.\n")>>,
              panicked |-> FALSE]
        ELSE [out |-> header
                      \o <<Printf("Found " \o ToString(Len(p.ResourceChanges))
                                  \o " resource changes:\n")>>
                      \o diffs.out,
              panicked |-> diffs.panicked]

----------------------------------------------------------------------------
(* The flags and the plans a run may be given.                             *)

\* The flags of infrasync with their defaults.
DefaultFlags ==
    [format |-> "cli", showUnchanged |-> FALSE, verbose |-> FALSE, compact |-> FALSE,
     warnings |-> TRUE, output |-> ""]


SeqsUpTo(S, n) == UNION {[1..k -> S] : k \in 0..n}

\* Every action sequence json.Unmarshal can deliver, up to MaxActions names.
ActionSeqs == SeqsUpTo(ActionNames, MaxActions)

\* The shapes a plan of several records mixes: no action, each single
\* action, a replace in both orders and a pair that is no replace.
PlanActionSeqs ==
    SeqsUpTo(ActionNames, 1)
        \cup {<<ActionDelete, ActionCreate>>, <<ActionCreate, ActionDelete>>,
              <<ActionCreate, ActionUpdate>>}

\* Before/after snapshots: null, not a mapping, and mappings.
Values ==
    {JSONNull,
     JSONString("not a map"),
     JSONObject("encrypted" :> JSONBool(TRUE))}

\* type and address of the resources of a plan
Resources ==
    {[Type |-> "aws_db_instance", Address |-> "aws_db_instance.main"],
     [Type |-> "aws_instance", Address |-> "aws_instance.web"],
     [Type |-> "aws_s3_bucket", Address |-> "aws_s3_bucket.Prod_logs"]}

RecordOf(r, change) == [Address |-> r.Address, Type |-> r.Type, Change |-> change]

\* Every record: a resource with a change object, or with none.
Records ==
    {RecordOf(r, ChangeOf(a, b, c)) :
        r \in Resources, a \in ActionSeqs, b \in Values, c \in Values}
    \cup {RecordOf(r, NilChange) : r \in Resources}

\* The records of a plan of several records: snapshots left null.
PlanRecords ==
    {RecordOf(r, ChangeOf(a, JSONNull, JSONNull)) :
        r \in Resources, a \in PlanActionSeqs}
    \cup {RecordOf(r, NilChange) : r \in Resources}

\* plan.ResourceChanges is nil (the key is absent) or a list of records:
\* up to MaxPlanLen records of PlanRecords, or one record of Records.
NilPlan ==
    [TerraformVersion |-> "1.5.0", FormatVersion |-> "1.2",
     ResourceChangesNil |-> TRUE, ResourceChanges |-> <<>>]
PlanOf(p) == [NilPlan EXCEPT !.ResourceChangesNil = FALSE, !.ResourceChanges = p]

\* The resources the rules are run on: a type of every rule group, with
\* addresses that name production in several letter cases or not at all.
RuleResources ==
    {[Type |-> "aws_db_instance", Address |-> "aws_db_instance.main"],
     [Type |-> "aws_rds_cluster", Address |-> "aws_rds_cluster.prod_main"],
     [Type |-> "aws_s3_bucket", Address |-> "aws_s3_bucket.assets"],
     [Type |-> "aws_vpc", Address |-> "aws_vpc.main"],
     [Type |-> "aws_lb", Address |-> "aws_lb.front"],
     [Type |-> "aws_security_group", Address |-> "aws_security_group.web"],
     [Type |-> "aws_instance", Address |-> "aws_instance.PROD_web"]}

\* Attribute snapshots: every map from a set of keys D to values of V.
ObjectsOver(D, V) == {JSONObject(kv) : kv \in UNION {[K -> V] : K \in SUBSET D}}

\* encryption flags present or absent, on or off
EncryptionObjects ==
    ObjectsOver({"encrypted", "encryption_enabled"}, {JSONBool(TRUE), JSONBool(FALSE)})

CidrLists ==
    {<<>>, <<"10.0.0.0/8">>, <<"0.0.0.0/0">>, <<"::/0">>,
     <<"0.0.0.0/0", "::/0">>, <<"10.0.0.0/8", "0.0.0.0/0">>}

StringList(l) == JSONList([k \in 1..Len(l) |-> JSONString(l[k])])

\* cidr_blocks absent or a list of strings
CidrObjects ==
    {JSONObject(EmptyKV)} \cup {JSONObject("cidr_blocks" :> StringList(l)) : l \in CidrLists}

\* versioning absent, on or off, with a retention absent or of 0..MaxRetention days
BackupObjects ==
    {JSONObject(kv) :
        kv \in UNION {[K -> {JSONBool(TRUE), JSONBool(FALSE)}] : K \in SUBSET {"versioning"}}}
    \cup {JSONObject(kv) :
        kv \in [{"backup_retention_days"} -> {JSONNumber(n) : n \in 0..MaxRetention}]}
    \cup {JSONObject(("versioning" :> JSONBool(b)) @@ ("backup_retention_days" :> JSONNumber(n))) :
        b \in BOOLEAN, n \in 0..MaxRetention}

\* a flag or a retention whose value is of the wrong JSON type
MistypedObjects ==
    {JSONObject("encrypted" :> JSONString("true")),
     JSONObject("encrypted" :> JSONNull),
     JSONObject("versioning" :> JSONString("Enabled")),
     JSONObject("backup_retention_days" :> JSONString("7"))}

\* a flag or a retention of the right type, or no key at all
TypedObjects ==
    {JSONObject(EmptyKV),
     JSONObject("encrypted" :> JSONBool(TRUE)),
     JSONObject("encrypted" :> JSONBool(FALSE)),
     JSONObject("versioning" :> JSONBool(TRUE)),
     JSONObject("backup_retention_days" :> JSONNumber(1)),
     JSONObject("backup_retention_days" :> JSONNumber(0))}

\* before and after of one record
AttrPairs ==
    (EncryptionObjects \X EncryptionObjects)
        \cup (MistypedObjects \X TypedObjects)
        \cup (TypedObjects \X MistypedObjects)
        \cup (CidrObjects \X CidrObjects)
        \cup (BackupObjects \X BackupObjects)
        \cup {<<JSONNull, JSONNull>>}

\* Type strings for the type matching: the listed names, names that hold a
\* listed name inside, upper-case spellings and names that hold none.
TypeStrings ==
    {"aws_db_instance", "aws_rds_cluster", "google_sql_database", "azurerm_sql_database",
     "aws_dynamodb_table", "azurerm_postgresql_server", "mysql_user",
     "AWS_DB_Instance", "Aws_Rds", "aws_db_instanc",
     "aws_s3_bucket", "google_storage_bucket", "azurerm_storage_account", "aws_ebs_volume",
     "aws_s3_bucket_policy", "AWS_EBS_VOLUME", "aws_s3_bucke",
     "aws_instance", "random_password", ""}

TypeResources == {[Type |-> t, Address |-> t \o ".this"] : t \in TypeStrings}

----------------------------------------------------------------------------
(* The run.                                                                *)

Init ==
    /\ \/ plan = NilPlan
       \/ \E n \in 0..MaxPlanLen : \E p \in [1..n -> PlanRecords] : plan = PlanOf(p)
       \/ \E rc \in Records : plan = PlanOf(<<rc>>)
    /\ flags = DefaultFlags
    /\ pc = "start"
    /\ idx = 0
    /\ summary = ZeroPlanSummary
    /\ warnings = <<>>
    /\ output = <<>>
    /\ exitCode = -1

\* A plan of one record of a rule resource, with its snapshots.
InitRules ==
    /\ \E r \in RuleResources, a \in PlanActionSeqs, pr \in AttrPairs :
          plan = PlanOf(<<RecordOf(r, ChangeOf(a, pr[1], pr[2]))>>)
    /\ flags = DefaultFlags
    /\ pc = "start"
    /\ idx = 0
    /\ summary = ZeroPlanSummary
    /\ warnings = <<>>
    /\ output = <<>>
    /\ exitCode = -1

\* A plan of one record of a resource of each type string, snapshots null.
InitTypes ==
    /\ \E r \in TypeResources, a \in PlanActionSeqs :
          plan = PlanOf(<<RecordOf(r, ChangeOf(a, JSONNull, JSONNull))>>)
    /\ flags = DefaultFlags
    /\ pc = "start"
    /\ idx = 0
    /\ summary = ZeroPlanSummary
    /\ warnings = <<>>
    /\ output = <<>>
    /\ exitCode = -1

\* The flag settings of the runs of SpecMain: the cli format with every
\* setting of --verbose and --warnings and with --show-unchanged, the
\* markdown format with every setting of --warnings and --output and with
\* --compact, and a format main does not know.
MainFlags ==
    {[DefaultFlags EXCEPT !.verbose = v, !.warnings = w] : v \in BOOLEAN, w \in BOOLEAN}
    \cup {[DefaultFlags EXCEPT !.showUnchanged = TRUE]}
    \cup {[DefaultFlags EXCEPT !.format = "markdown", !.warnings = w, !.output = o] :
             w \in BOOLEAN, o \in {"", "plan.md"}}
    \cup {[DefaultFlags EXCEPT !.format = "markdown", !.compact = TRUE]}
    \cup {[DefaultFlags EXCEPT !.format = "json"]}

\* The flag settings of the cli format that reach the attribute printers.
RenderFlags == {[DefaultFlags EXCEPT !.verbose = v] : v \in BOOLEAN}

MainResources ==
    {[Type |-> "aws_db_instance", Address |-> "aws_db_instance.main"],
     [Type |-> "aws_instance", Address |-> "aws_instance.web"]}

MainActionSeqs ==
    {<<ActionCreate>>, <<ActionDelete>>, <<ActionNoop>>,
     <<ActionDelete, ActionCreate>>, <<ActionCreate, ActionDelete>>}

\* The records of the plans of several records of SpecMain: snapshots null.
MainRecords ==
    {RecordOf(r, ChangeOf(a, JSONNull, JSONNull)) : r \in MainResources, a \in MainActionSeqs}

\* a value of more than 60 characters
LongSecret == Repeat("0123456789", 6) \o "abc"

\* Snapshots with a password, and the markers of a record: none, the
\* password marked sensitive before, after or on both sides, marked not
\* sensitive, and the password not known before apply.
SecretsBefore ==
    {JSONNull,
     JSONObject(("name" :> JSONString("db")) @@ ("password" :> JSONString("hunter2"))),
     JSONObject("password" :> JSONString(LongSecret))}

SecretsAfter ==
    {JSONNull,
     JSONObject(("name" :> JSONString("db")) @@ ("password" :> JSONString("hunter2"))),
     JSONObject(("name" :> JSONString("db")) @@ ("password" :> JSONString("s3cret")))}

MarkedSensitive == JSONObject("password" :> JSONBool(TRUE))

Markers ==
    {<<JSONNull, JSONNull, JSONNull>>,
     <<MarkedSensitive, MarkedSensitive, JSONNull>>,
     <<MarkedSensitive, JSONNull, JSONNull>>,
     <<JSONNull, MarkedSensitive, JSONNull>>,
     <<JSONObject("password" :> JSONBool(FALSE)), JSONBool(FALSE), JSONNull>>,
     <<JSONNull, MarkedSensitive, JSONObject("password" :> JSONBool(TRUE))>>}

\* The records with a password of SpecMain.
SecretRecords ==
    {RecordOf([Type |-> "aws_db_instance", Address |-> "aws_db_instance.main"],
              ChangeWith(a, b, c, m[1], m[2], m[3])) :
        a \in MainActionSeqs \cup {<<ActionUpdate>>},
        b \in SecretsBefore, c \in SecretsAfter, m \in Markers}

\* Any flag setting with a plan of up to MaxPlanLen records without
\* snapshots, or a cli setting with a plan of one record with a password.
InitMain ==
    /\ \/ \E fl \in MainFlags :
             /\ flags = fl
             /\ \/ plan = NilPlan
                \/ \E n \in 0..MaxPlanLen : \E p \in [1..n -> MainRecords] : plan = PlanOf(p)
       \/ \E fl \in RenderFlags, rc \in SecretRecords :
             /\ flags = fl
             /\ plan = PlanOf(<<rc>>)
    /\ pc = "start"
    /\ idx = 0
    /\ summary = ZeroPlanSummary
    /\ warnings = <<>>
    /\ output = <<>>
    /\ exitCode = -1

\* ParsePlan up to its loop: allocate the summary, return it for a nil list.
ParsePlanEnter ==
    /\ pc = "start"
    /\ summary' = [newPlanSummary EXCEPT !.TerraformVersion = plan.TerraformVersion,
                                         !.FormatVersion = plan.FormatVersion]
    /\ idx' = 1
    /\ pc' = IF plan.ResourceChangesNil THEN "parsed" ELSE "loop"
    /\ UNCHANGED <<plan, flags, warnings, output, exitCode>>

\* One iteration of the loop; classifyChange panics on a nil change object.
ParsePlanFold ==
    /\ pc = "loop"
    /\ idx <= Len(plan.ResourceChanges)
    /\ LET rc == plan.ResourceChanges[idx]
       IN  IF classifyChangePanics(rc)
           THEN /\ pc' = "panic"
                /\ UNCHANGED <<idx, summary>>
           ELSE /\ summary' = foldChange(summary, classifyChange(rc))
                /\ idx' = idx + 1
                /\ pc' = "loop"
    /\ UNCHANGED <<plan, flags, warnings, output, exitCode>>

\* The loop is over: ParsePlan returns the summary.
ParsePlanReturn ==
    /\ pc = "loop"
    /\ idx > Len(plan.ResourceChanges)
    /\ pc' = "parsed"
    /\ UNCHANGED <<plan, flags, idx, summary, warnings, output, exitCode>>

\* main hands the summary to the analyzer, unless --warnings=false.
Analyze ==
    /\ pc = "parsed"
    /\ warnings' = IF flags.warnings THEN AnalyzeChanges(summary) ELSE <<>>
    /\ pc' = "analyzed"
    /\ UNCHANGED <<plan, flags, idx, summary, output, exitCode>>

\* main formats, writes its output and exits: the cli case with the code
\* of determineExitCode, the markdown case by returning from main (or with
\* 1 when the output file cannot be written), an unknown format with 1.
Exit ==
    /\ pc = "analyzed"
    /\ CASE flags.format = "cli" ->
              /\ output' = cliOutput(flags, summary, warnings)
              /\ exitCode' = determineExitCode(summary, warnings)
              /\ pc' = "exited"
         [] flags.format = "markdown" ->
              \E written \in (IF flags.output # "" THEN BOOLEAN ELSE {TRUE}) :
                  IF flags.output = ""
                  THEN /\ output' = markdownOutput(flags, summary, warnings)
                       /\ exitCode' = 0
                       /\ pc' = "exited"
                  ELSE IF written
                  THEN /\ output' =
                            <<[file |-> flags.output,
                               content |-> markdownOutput(flags, summary, warnings)],
                              Colorln("green", "<U+2713> Output written to " \o flags.output)>>
                       /\ exitCode' = 0
                       /\ pc' = "exited"
                  ELSE /\ output' = <<Colorln("red", "Error writing output file: <error>")>>
                       /\ exitCode' = 1
                       /\ pc' = "failed"
         [] OTHER ->
              /\ output' = <<Colorln("red", "Unknown format: " \o flags.format),
                             Colorln("yellow", "Supported formats: cli, markdown")>>
              /\ exitCode' = 1
              /\ pc' = "failed"
    /\ UNCHANGED <<plan, flags, idx, summary, warnings>>

\* The other command, infrasyncli, run on the plan file: it prints a line
\* for every record and returns, or panics in printDiff (exit status 2).
Infrasyncli ==
    /\ pc = "start"
    /\ LET run == infrasyncliMain(plan)
       IN  /\ output' = run.out
           /\ pc' = IF run.panicked THEN "cli_panic" ELSE "cli_exited"
           /\ exitCode' = IF run.panicked THEN 2 ELSE 0
    /\ UNCHANGED <<plan, flags, idx, summary, warnings>>

Next ==
    \/ ParsePlanEnter
    \/ ParsePlanFold
    \/ ParsePlanReturn
    \/ Analyze
    \/ Exit
    \/ Infrasyncli

Spec == Init /\ [][Next]_vars

\* The same run on the plans of InitRules.
SpecRules == InitRules /\ [][Next]_vars

\* The same run on the plans of InitTypes.
SpecTypes == InitTypes /\ [][Next]_vars

\* The runs of both commands under the flag settings and plans of InitMain.
SpecMain == InitMain /\ [][Next]_vars

----------------------------------------------------------------------------
(* Properties.                                                             *)

Returned == pc \in {"parsed", "analyzed", "exited"}
Analyzed == pc \in {"analyzed", "exited"}

\* The record a Change was classified from: the fold keeps Changes aligned
\* with the records read so far.
RecordAt(k) == plan.ResourceChanges[k]
ActionsAt(k) == RecordAt(k).Change.Actions

FlagNames == {"IsCreate", "IsUpdate", "IsDelete", "IsReplace", "IsNoOp"}
FlagsSet(c) == {f \in FlagNames : c[f]}
CountFlag(changes, f) == Cardinality({k \in 1..Len(changes) : changes[k][f]})

\* C1: every Change produced by classifyChange, whatever its action
\* sequence, has exactly one of the five flags true.
C1_ExactlyOneFlag ==
    \A k \in 1..Len(summary.Changes) : Cardinality(FlagsSet(summary.Changes[k])) = 1

\* C2: in every PlanSummary ParsePlan returns, the five counters add up to
\* len(Changes).
C2_CountersSumToLen ==
    Returned =>
        summary.ToCreate + summary.ToUpdate + summary.ToDelete
            + summary.ToReplace + summary.NoChanges = Len(summary.Changes)

\* C3: a record with actions [delete, create] or [create, delete] is
\* classified as a replace and nothing else, never as a plain delete.
C3_ReplaceEitherOrder ==
    \A k \in 1..Len(summary.Changes) :
        ActionsAt(k) \in {<<ActionDelete, ActionCreate>>, <<ActionCreate, ActionDelete>>}
            => FlagsSet(summary.Changes[k]) = {"IsReplace"}

C3_Witness ==
    /\ Len(summary.Changes) = 2
    /\ ActionsAt(1) = <<ActionCreate, ActionDelete>>
    /\ ActionsAt(2) = <<ActionDelete, ActionCreate>>
    /\ summary.Changes[1].IsReplace /\ summary.Changes[2].IsReplace

FlagOf(a) ==
    CASE a = ActionCreate -> "IsCreate"
      [] a = ActionUpdate -> "IsUpdate"
      [] a = ActionDelete -> "IsDelete"
      [] a = ActionNoop -> "IsNoOp"

\* C4: a record with exactly one action a of create, update, delete, no-op
\* is classified with the flag of a true and the other four false.
C4_SingleAction ==
    \A k \in 1..Len(summary.Changes) :
        \A a \in {ActionCreate, ActionUpdate, ActionDelete, ActionNoop} :
            ActionsAt(k) = <<a>> => FlagsSet(summary.Changes[k]) = {FlagOf(a)}

C4_Witness ==
    /\ Len(summary.Changes) = 2
    /\ ActionsAt(1) = <<ActionNoop>> /\ summary.Changes[1].IsNoOp
    /\ ActionsAt(2) = <<ActionUpdate>> /\ summary.Changes[2].IsUpdate

\* C5: classifyChange is total: no record, not even one without a nested
\* change object, makes it panic.
C5_ClassifyNeverPanics == pc # "panic"

\* C6: each counter equals the number of Changes carrying its flag, after
\* every record folded and at the return.
C6_CountersMatchFlags ==
    /\ summary.ToCreate = CountFlag(summary.Changes, "IsCreate")
    /\ summary.ToUpdate = CountFlag(summary.Changes, "IsUpdate")
    /\ summary.ToDelete = CountFlag(summary.Changes, "IsDelete")
    /\ summary.ToReplace = CountFlag(summary.Changes, "IsReplace")
    /\ summary.NoChanges = CountFlag(summary.Changes, "IsNoOp")

C6_Witness ==
    /\ pc = "loop"
    /\ Len(summary.Changes) = 2
    /\ summary.Changes[1].IsReplace /\ summary.Changes[2].IsDelete
    /\ summary.ToReplace = 1 /\ summary.ToDelete = 1

\* C7: ParsePlan keeps the order and the length of its input: Changes[i]
\* is the classification of record i, with its Address and Type, and a
\* returned summary has one Change per record.
C7_OrderAndLengthPreserved ==
    /\ \A k \in 1..Len(summary.Changes) :
          /\ k <= Len(plan.ResourceChanges)
          /\ summary.Changes[k].Address = RecordAt(k).Address
          /\ summary.Changes[k].Type = RecordAt(k).Type
          /\ summary.Changes[k] = classifyChange(RecordAt(k))
    /\ Returned => Len(summary.Changes) = Len(plan.ResourceChanges)

C7_Witness ==
    /\ Returned
    /\ Len(plan.ResourceChanges) = 2
    /\ Len(summary.Changes) = 2
    /\ RecordAt(1).Address # RecordAt(2).Address
    /\ ActionsAt(1) # ActionsAt(2)

\* C8: for a plan without resource change records (a nil or an empty list)
\* ParsePlan returns a summary with all five counters zero and an empty,
\* non-nil Changes.
C8_EmptyPlan ==
    Len(plan.ResourceChanges) = 0 =>
        /\ pc # "panic"
        /\ Returned =>
              /\ summary.ToCreate = 0 /\ summary.ToUpdate = 0 /\ summary.ToDelete = 0
              /\ summary.ToReplace = 0 /\ summary.NoChanges = 0
              /\ summary.Changes = <<>>
              /\ ~summary.ChangesNil

C8_Witness ==
    /\ pc = "parsed"
    /\ plan.ResourceChangesNil
    /\ summary.Changes = <<>>

SourceKV(v) == IF v.kind = "map" THEN v.kv ELSE EmptyKV

\* C9: Before and After of a Change are never nil: a source value that is
\* nil or no mapping becomes an empty map, a mapping keeps all its pairs.
C9_BeforeAfterNeverNil ==
    \A k \in 1..Len(summary.Changes) :
        LET c == summary.Changes[k]
            src == RecordAt(k).Change
        IN  /\ ~c.Before.isNil /\ ~c.After.isNil
            /\ c.Before.kv = SourceKV(src.Before)
            /\ c.After.kv = SourceKV(src.After)

C9_Witness ==
    /\ Len(summary.Changes) = 1
    /\ RecordAt(1).Change.Before.kind = "map"
    /\ RecordAt(1).Change.After.kind = "nil"
    /\ DOMAIN summary.Changes[1].Before.kv = {"encrypted"}
    /\ DOMAIN summary.Changes[1].After.kv = {}

\* The database type names of the delete rule.
DatabaseTypeNames ==
    {"aws_db_instance", "aws_rds", "google_sql_database", "azurerm_sql_database",
     "aws_dynamodb_table", "postgresql", "mysql"}

ContainsDatabaseName(t) == \E n \in DatabaseTypeNames : Contains(ToLower(t), n)

CriticalFor(c) ==
    \E j \in 1..Len(warnings) :
        warnings[j].Level = RiskCritical /\ warnings[j].Resource = c.Address

\* C10: a Change with IsDelete true whose type contains a database type
\* name gets at least one critical Warning from AnalyzeChanges.
C10_DatabaseDeleteCritical ==
    pc = "analyzed" =>
        \A k \in 1..Len(summary.Changes) :
            summary.Changes[k].IsDelete /\ ContainsDatabaseName(summary.Changes[k].Type)
                => CriticalFor(summary.Changes[k])

C10_Witness ==
    /\ pc = "analyzed"
    /\ \E k \in 1..Len(summary.Changes) :
          /\ summary.Changes[k].IsDelete
          /\ summary.Changes[k].Type = "aws_db_instance"
          /\ ~Contains(ToLower(summary.Changes[k].Address), "prod")
          /\ CriticalFor(summary.Changes[k])

HighFor(c) ==
    \E j \in 1..Len(warnings) :
        warnings[j].Level = RiskHigh /\ warnings[j].Resource = c.Address

StorageDestroyed == "Storage resource will be DESTROYED - potential data loss"
ProductionDestroyed == "Production resource will be DESTROYED"
DatabaseDestroyed == "Database will be DESTROYED - data loss risk!"
DatabaseReplaced == "Database will be REPLACED - downtime expected!"

\* C11: a Change with IsDelete true whose type contains "aws_s3_bucket"
\* gets at least one high Warning, and the storage-destroyed Warning is
\* high, not critical.
C11_StorageDeleteHigh ==
    Analyzed =>
        /\ \A k \in 1..Len(summary.Changes) :
              /\ summary.Changes[k].IsDelete
              /\ Contains(ToLower(summary.Changes[k].Type), "aws_s3_bucket")
              => HighFor(summary.Changes[k])
        /\ \A j \in 1..Len(warnings) :
              warnings[j].Message = StorageDestroyed => warnings[j].Level = RiskHigh

C11_Witness ==
    /\ Analyzed
    /\ Len(summary.Changes) = 2
    /\ summary.Changes[2].IsDelete
    /\ summary.Changes[2].Type = "aws_s3_bucket"
    /\ \E j \in 1..Len(warnings) :
          /\ warnings[j].Message = StorageDestroyed
          /\ warnings[j].Level = RiskHigh
          /\ warnings[j].Resource = summary.Changes[2].Address

\* The critical Warnings raised for the resource of c, in order.
CriticalsOf(c) ==
    SelectSeq(warnings, LAMBDA w : w.Level = RiskCritical /\ w.Resource = c.Address)

MessagesOf(ws) == [j \in 1..Len(ws) |-> ws[j].Message]

\* C12: a Change with IsDelete true whose address contains "prod" in any
\* letter case, whatever its type, gets a critical Warning whose Resource
\* is that address.
C12_ProductionDeleteCritical ==
    Analyzed =>
        \A k \in 1..Len(summary.Changes) :
            /\ summary.Changes[k].IsDelete
            /\ Contains(ToLower(summary.Changes[k].Address), "prod")
            => CriticalFor(summary.Changes[k])

C12_Witness ==
    /\ Analyzed
    /\ Len(summary.Changes) = 1
    /\ summary.Changes[1].IsDelete
    /\ summary.Changes[1].Address = "aws_instance.PROD_web"
    /\ MessagesOf(CriticalsOf(summary.Changes[1])) = <<ProductionDestroyed>>

\* C13: the delete rules are additive: a deleted database whose address
\* contains "prod" gets two critical Warnings, the production one and the
\* database one.
C13_DeleteRulesAdditive ==
    Analyzed =>
        \A k \in 1..Len(summary.Changes) :
            /\ summary.Changes[k].IsDelete
            /\ ContainsDatabaseName(summary.Changes[k].Type)
            /\ Contains(ToLower(summary.Changes[k].Address), "prod")
            => MessagesOf(CriticalsOf(summary.Changes[k]))
                   = <<ProductionDestroyed, DatabaseDestroyed>>

C13_Witness ==
    /\ Analyzed
    /\ Len(summary.Changes) = 1
    /\ summary.Changes[1].IsDelete
    /\ summary.Changes[1].Address = "aws_rds_cluster.prod_main"
    /\ Len(warnings) = 2

IsRdsProdReplace(rc) ==
    /\ rc.Address = "aws_rds_cluster.prod_main"
    /\ rc.Type = "aws_rds_cluster"
    /\ rc.Change.Actions = <<ActionDelete, ActionCreate>>

\* C14: the record aws_rds_cluster.prod_main with actions [delete, create]
\* is a replace and gets exactly one critical Warning, the
\* database-replaced one; the production rule adds nothing for a replace.
C14_RdsProdReplaceOneCritical ==
    Analyzed /\ Len(plan.ResourceChanges) = 1 /\ IsRdsProdReplace(RecordAt(1)) =>
        /\ FlagsSet(summary.Changes[1]) = {"IsReplace"}
        /\ MessagesOf(SelectSeq(warnings, LAMBDA w : w.Level = RiskCritical))
               = <<DatabaseReplaced>>
        /\ \A j \in 1..Len(warnings) : warnings[j].Message # ProductionDestroyed

C14_Witness ==
    /\ Analyzed
    /\ Len(plan.ResourceChanges) = 1
    /\ IsRdsProdReplace(RecordAt(1))
    /\ summary.Changes[1].IsReplace
    /\ Len(warnings) = 1
    /\ warnings[1].Level = RiskCritical

EncryptionDisabled == "Encryption is being DISABLED"
SecurityRelaxed == "Security group rules are being relaxed"
BackupDisabled == "Backup or versioning is being DISABLED"

\* The Warnings with message msg raised for the resource of c.
WarningsOf(c, msg) ==
    SelectSeq(warnings, LAMBDA w : w.Message = msg /\ w.Resource = c.Address)

Has(kv, key, v) == key \in DOMAIN kv /\ kv[key] = v

EncryptionKeyNames == {"encryption", "encrypted", "enable_encryption", "encryption_enabled"}

\* key is absent from both snapshots, unchanged, or goes from false to true
NotDisabled(b, a, key) ==
    \/ key \notin DOMAIN b /\ key \notin DOMAIN a
    \/ key \in DOMAIN b /\ key \in DOMAIN a /\ b[key] = a[key]
    \/ Has(b, key, JSONBool(FALSE)) /\ Has(a, key, JSONBool(TRUE))

CidrBlocks(kv) ==
    IF "cidr_blocks" \in DOMAIN kv /\ kv["cidr_blocks"].kind = "list"
    THEN {kv["cidr_blocks"].items[j].s : j \in 1..Len(kv["cidr_blocks"].items)}
    ELSE {}

OpenBlocks == {"0.0.0.0/0", "::/0"}

SecurityGroupTypeNames ==
    {"aws_security_group", "google_compute_firewall", "azurerm_network_security_group"}

IsSecurityGroupType(t) == \E n \in SecurityGroupTypeNames : Contains(ToLower(t), n)

\* C16: an update of a security-group type whose after cidr_blocks holds
\* "0.0.0.0/0" or "::/0" that before's does not hold gets a high
\* security-rules-relaxed Warning; an update of another type gets none.
C16_SecurityGroupWeakening ==
    Analyzed =>
        \A k \in 1..Len(summary.Changes) :
            LET c == summary.Changes[k]
                ws == WarningsOf(c, SecurityRelaxed)
                opened == (CidrBlocks(c.After.kv) \cap OpenBlocks) \ CidrBlocks(c.Before.kv)
            IN  c.IsUpdate =>
                  /\ IsSecurityGroupType(c.Type) /\ opened # {}
                     => Len(ws) = 1 /\ ws[1].Level = RiskHigh
                  /\ ~IsSecurityGroupType(c.Type) => Len(ws) = 0

C16_Witness ==
    /\ Analyzed
    /\ Len(summary.Changes) = 1
    /\ summary.Changes[1].IsUpdate
    /\ summary.Changes[1].Type = "aws_security_group"
    /\ CidrBlocks(summary.Changes[1].Before.kv) = {"10.0.0.0/8"}
    /\ CidrBlocks(summary.Changes[1].After.kv) = {"::/0"}
    /\ Len(warnings) = 1
    /\ warnings[1].Message = SecurityRelaxed

\* C17, as claimed: an update of a security-group type whose before
\* cidr_blocks already held "0.0.0.0/0" gets no security-rules-relaxed
\* Warning, whatever after's cidr_blocks holds.
C17_NoWarningIfBeforeOpen ==
    Analyzed =>
        \A k \in 1..Len(summary.Changes) :
            LET c == summary.Changes[k]
            IN  /\ c.IsUpdate
                /\ IsSecurityGroupType(c.Type)
                /\ "0.0.0.0/0" \in CidrBlocks(c.Before.kv)
                => Len(WarningsOf(c, SecurityRelaxed)) = 0

\* C17, amended: an update of a security-group type whose before
\* cidr_blocks already held "0.0.0.0/0" gets no security-rules-relaxed
\* Warning, unless after's cidr_blocks holds "::/0" and before's does not.
C17_NoWarningIfBeforeOpenAndNoNewBlock ==
    Analyzed =>
        \A k \in 1..Len(summary.Changes) :
            LET c == summary.Changes[k]
            IN  /\ c.IsUpdate
                /\ IsSecurityGroupType(c.Type)
                /\ "0.0.0.0/0" \in CidrBlocks(c.Before.kv)
                /\ ~("::/0" \in CidrBlocks(c.After.kv) /\ "::/0" \notin CidrBlocks(c.Before.kv))
                => Len(WarningsOf(c, SecurityRelaxed)) = 0

C17_Witness ==
    /\ Analyzed
    /\ Len(summary.Changes) = 1
    /\ summary.Changes[1].IsUpdate
    /\ summary.Changes[1].Type = "aws_security_group"
    /\ CidrBlocks(summary.Changes[1].Before.kv) = {"10.0.0.0/8", "0.0.0.0/0"}
    /\ CidrBlocks(summary.Changes[1].After.kv) = {"0.0.0.0/0"}
    /\ warnings = <<>>

BackupKeyNames ==
    {"versioning", "backup_enabled", "enable_backup",
     "backup_retention_days", "backup_retention_period"}

IsPositive(v) == v.kind = "number" /\ v.n > 0

\* key goes from true to false: true before, and not true after (a missing
\* key reads as false)
TurnedOff(b, a, key) ==
    Has(b, key, JSONBool(TRUE)) /\ ~Has(a, key, JSONBool(TRUE))

\* key goes from a positive number to zero (a missing key reads as zero)
DroppedToZero(b, a, key) ==
    /\ key \in DOMAIN b /\ IsPositive(b[key])
    /\ ~(key \in DOMAIN a /\ a[key].kind = "number" /\ a[key].n # 0)

C19_NoWarningForCreateOrNoOp ==
    Analyzed =>
        \A k \in 1..Len(summary.Changes) :
            summary.Changes[k].IsCreate \/ summary.Changes[k].IsNoOp
                => \A j \in 1..Len(warnings) :
                       warnings[j].Resource # summary.Changes[k].Address

C19_Witness ==
    /\ Analyzed
    /\ Len(summary.Changes) = 1
    /\ summary.Changes[1].IsNoOp
    /\ summary.Changes[1].Address = "aws_rds_cluster.prod_main"
    /\ Has(summary.Changes[1].Before.kv, "encrypted", JSONBool(TRUE))
    /\ Has(summary.Changes[1].After.kv, "encrypted", JSONBool(FALSE))
    /\ warnings = <<>>

\* C20, as claimed: the exit code is 0 if all five counters are zero, 2 if
\* a Warning is critical, 1 otherwise; a plan of no-op changes only does
\* not have all five counters zero.
C20_ExitCodeOfFiveCounters ==
    pc = "exited" =>
        exitCode =
            IF /\ summary.ToCreate = 0 /\ summary.ToUpdate = 0 /\ summary.ToDelete = 0
               /\ summary.ToReplace = 0 /\ summary.NoChanges = 0
            THEN 0
            ELSE IF \E j \in 1..Len(warnings) : warnings[j].Level = RiskCritical THEN 2
            ELSE 1

\* C20, amended: the exit code is 0 if the create, update, delete and
\* replace counters are zero (the no-op counter is not looked at), else 2
\* if a Warning is critical, else 1; a plan of no-op changes only exits 0.
C20_ExitCodeOfFourCounters ==
    pc = "exited" =>
        exitCode =
            IF /\ summary.ToCreate = 0 /\ summary.ToUpdate = 0 /\ summary.ToDelete = 0
               /\ summary.ToReplace = 0
            THEN 0
            ELSE IF \E j \in 1..Len(warnings) : warnings[j].Level = RiskCritical THEN 2
            ELSE 1

C20_Witness ==
    /\ pc = "exited"
    /\ Len(summary.Changes) = 2
    /\ summary.NoChanges = 2
    /\ exitCode = 0

\* An action sequence that is empty, longer than two, or a pair that is not
\* one delete and one create.
OtherShape(a) ==
    \/ Len(a) = 0
    \/ Len(a) > 2
    \/ Len(a) = 2 /\ {a[1], a[2]} # {ActionDelete, ActionCreate}

Counters(s) == <<s.ToCreate, s.ToUpdate, s.ToDelete, s.ToReplace, s.NoChanges>>

\* C24: a record whose action sequence is empty, has more than two entries,
\* or has two entries that are not one delete and one create, is classified
\* with all five flags false, and the step of ParsePlan that folds it
\* appends its Change and leaves the five counters as they were.
C24_OtherShapesNoFlag ==
    [][\A k \in 1..Len(summary'.Changes) :
          k > Len(summary.Changes) /\ OtherShape(ActionsAt(k)) =>
              /\ Len(summary'.Changes) = Len(summary.Changes) + 1
              /\ summary'.Changes[k].Actions = ActionsAt(k)
              /\ summary'.Changes[k].Address = RecordAt(k).Address
              /\ FlagsSet(summary'.Changes[k]) = {}
              /\ Counters(summary') = Counters(summary)]_vars

C24_Witness ==
    /\ pc = "loop"
    /\ Len(summary.Changes) = 1
    /\ ActionsAt(1) = <<ActionCreate, ActionUpdate, ActionDelete>>
    /\ FlagsSet(summary.Changes[1]) = {}
    /\ Counters(summary) = <<0, 0, 0, 0, 0>>

\* The reading of the claim: a key is true when it is present with the
\* boolean true, and a number when it is present with a number, else zero.
ReadsTrue(kv, key) == key \in DOMAIN kv /\ kv[key] = JSONBool(TRUE)
ReadsNumber(kv, key) ==
    IF key \in DOMAIN kv /\ kv[key].kind = "number" THEN kv[key].n ELSE 0

\* C25: the update rules read a missing key, and a value of the wrong type,
\* as false and as zero: an update gets the encryption-disabled Warning
\* exactly when an encryption key reads true before and false after, and
\* the backup-disabled Warning exactly when a backup key reads true before
\* and false after or positive before and zero after; so encrypted = true
\* before and no such key after, and backup_retention_days > 0 before and
\* no such key after, each get their Warning.
C25_MissingOrMistypedKey ==
    Analyzed =>
        \A k \in 1..Len(summary.Changes) :
            LET c == summary.Changes[k]
                b == c.Before.kv
                a == c.After.kv
                enc == \E key \in EncryptionKeyNames :
                          ReadsTrue(b, key) /\ ~ReadsTrue(a, key)
                bak == \E key \in BackupKeyNames :
                          \/ ReadsTrue(b, key) /\ ~ReadsTrue(a, key)
                          \/ ReadsNumber(b, key) > 0 /\ ReadsNumber(a, key) = 0
            IN  c.IsUpdate =>
                  /\ Len(WarningsOf(c, EncryptionDisabled)) = (IF enc THEN 1 ELSE 0)
                  /\ Len(WarningsOf(c, BackupDisabled)) = (IF bak THEN 1 ELSE 0)
                  /\ Has(b, "encrypted", JSONBool(TRUE)) /\ "encrypted" \notin DOMAIN a
                     => Len(WarningsOf(c, EncryptionDisabled)) = 1
                  /\ /\ "backup_retention_days" \in DOMAIN b
                     /\ IsPositive(b["backup_retention_days"])
                     /\ "backup_retention_days" \notin DOMAIN a
                     => Len(WarningsOf(c, BackupDisabled)) = 1

C25_Witness ==
    /\ Analyzed
    /\ Len(summary.Changes) = 1
    /\ summary.Changes[1].IsUpdate
    /\ Has(summary.Changes[1].Before.kv, "backup_retention_days", JSONNumber(1))
    /\ Has(summary.Changes[1].After.kv, "backup_retention_days", JSONString("7"))
    /\ Len(warnings) = 1
    /\ warnings[1].Message = BackupDisabled

StorageTypeNames ==
    {"aws_s3_bucket", "google_storage_bucket", "azurerm_storage_account", "aws_ebs_volume"}

ContainsStorageName(t) == \E n \in StorageTypeNames : Contains(ToLower(t), n)

\* C26: type matching is case-insensitive substring containment: isDatabase
\* is true exactly of the types whose lower-cased form contains a database
\* name, isStorage exactly of those that contain a storage name, and the
\* database and storage delete rules fire for exactly those types;
\* aws_instance and aws_s3_bucket are no databases, aws_db_instance is no
\* storage.
C26_TypeMatching ==
    /\ \A k \in 1..Len(plan.ResourceChanges) :
          LET t == RecordAt(k).Type
          IN  /\ isDatabase(t) <=> ContainsDatabaseName(t)
              /\ isStorage(t) <=> ContainsStorageName(t)
              /\ t \in {"aws_instance", "aws_s3_bucket"} => ~isDatabase(t)
              /\ t = "aws_db_instance" => ~isStorage(t)
    /\ Analyzed =>
          \A k \in 1..Len(summary.Changes) :
              LET c == summary.Changes[k]
              IN  c.IsDelete =>
                    /\ Len(WarningsOf(c, DatabaseDestroyed))
                           = (IF ContainsDatabaseName(c.Type) THEN 1 ELSE 0)
                    /\ Len(WarningsOf(c, StorageDestroyed))
                           = (IF ContainsStorageName(c.Type) THEN 1 ELSE 0)

C26_Witness ==
    /\ Analyzed
    /\ Len(summary.Changes) = 1
    /\ summary.Changes[1].IsDelete
    /\ summary.Changes[1].Type = "azurerm_postgresql_server"
    /\ MessagesOf(warnings) = <<DatabaseDestroyed>>

NetworkDestroyed == "Network resource will be DESTROYED - connectivity impact"
ComputeReplaced == "Compute instance will be REPLACED - downtime expected"
LoadBalancerReplaced == "Load balancer will be REPLACED - traffic interruption"

NetworkTypeNames ==
    {"aws_vpc", "aws_subnet", "google_compute_network", "azurerm_virtual_network"}
ComputeTypeNames ==
    {"aws_instance", "google_compute_instance", "azurerm_virtual_machine",
     "aws_ecs_service", "aws_lambda_function"}
LoadBalancerTypeNames ==
    {"aws_lb", "aws_elb", "aws_alb", "google_compute_forwarding_rule", "azurerm_lb"}

ContainsName(t, names) == \E n \in names : Contains(ToLower(t), n)

\* One rule: its message when its precondition holds.
Rule(holds, msg) == IF holds THEN <<msg>> ELSE <<>>

\* The messages the rules of the action group of c call for, in rule order.
RuleMessages(c) ==
    LET b == c.Before.kv
        a == c.After.kv
    IN  IF c.IsDelete
        THEN Rule(Contains(ToLower(c.Address), "prod"), ProductionDestroyed)
             \o Rule(ContainsDatabaseName(c.Type), DatabaseDestroyed)
             \o Rule(ContainsStorageName(c.Type), StorageDestroyed)
             \o Rule(ContainsName(c.Type, NetworkTypeNames), NetworkDestroyed)
        ELSE IF c.IsReplace
        THEN Rule(ContainsDatabaseName(c.Type), DatabaseReplaced)
             \o Rule(ContainsName(c.Type, ComputeTypeNames), ComputeReplaced)
             \o Rule(ContainsName(c.Type, LoadBalancerTypeNames), LoadBalancerReplaced)
        ELSE IF c.IsUpdate
        THEN Rule(/\ IsSecurityGroupType(c.Type)
                  /\ (CidrBlocks(a) \cap OpenBlocks) \ CidrBlocks(b) # {},
                  SecurityRelaxed)
             \o Rule(\E key \in EncryptionKeyNames : ReadsTrue(b, key) /\ ~ReadsTrue(a, key),
                     EncryptionDisabled)
             \o Rule(\E key \in BackupKeyNames :
                         \/ ReadsTrue(b, key) /\ ~ReadsTrue(a, key)
                         \/ ReadsNumber(b, key) > 0 /\ ReadsNumber(a, key) = 0,
                     BackupDisabled)
        ELSE <<>>

\* message, address and type of the Warnings called for by changes[k..]
RECURSIVE RuleMessagesFrom(_, _)
RuleMessagesFrom(changes, k) ==
    IF k > Len(changes) THEN <<>>
    ELSE LET c == changes[k]
             ms == RuleMessages(c)
         IN  [j \in 1..Len(ms) |-> <<ms[j], c.Address, c.Type>>]
                 \o RuleMessagesFrom(changes, k + 1)

\* C27: the list AnalyzeChanges returns is the concatenation, in Change
\* order, of the Warnings of each Change: one Warning for every rule of the
\* Change's action group whose precondition holds, in the order of the
\* rules, each with the address and the type of its Change.
C27_WarningsAreConcatenation ==
    Analyzed =>
        [j \in 1..Len(warnings) |->
            <<warnings[j].Message, warnings[j].Resource, warnings[j].Type>>]
        = RuleMessagesFrom(summary.Changes, 1)

C27_Witness ==
    /\ Analyzed
    /\ Len(summary.Changes) = 2
    /\ summary.Changes[1].IsDelete /\ summary.Changes[1].Address = "aws_s3_bucket.Prod_logs"
    /\ summary.Changes[2].IsReplace /\ summary.Changes[2].Address = "aws_instance.web"
    /\ MessagesOf(warnings) = <<ProductionDestroyed, StorageDestroyed, ComputeReplaced>>
    /\ warnings[3].Resource = "aws_instance.web" /\ warnings[3].Type = "aws_instance"

DeleteMessages == {ProductionDestroyed, DatabaseDestroyed, StorageDestroyed, NetworkDestroyed}
ReplaceMessages == {DatabaseReplaced, ComputeReplaced, LoadBalancerReplaced}
UpdateMessages == {SecurityRelaxed, EncryptionDisabled, BackupDisabled}

\* The messages of the Warnings raised for the address of c.
MessagesFor(c) == {warnings[j].Message : j \in {i \in 1..Len(warnings) : warnings[i].Resource = c.Address}}

\* C28: a Change has at most one of the five flags true; at every point of
\* the fold the five counters add up to at most len(Changes); and the
\* Warnings of a Change (its address being the address of no other Change)
\* are all of one rule group.
C28_AtMostOneFlag ==
    /\ \A k \in 1..Len(summary.Changes) : Cardinality(FlagsSet(summary.Changes[k])) <= 1
    /\ summary.ToCreate + summary.ToUpdate + summary.ToDelete
           + summary.ToReplace + summary.NoChanges <= Len(summary.Changes)
    /\ Analyzed =>
          \A k \in 1..Len(summary.Changes) :
              (\A i \in 1..Len(summary.Changes) :
                   i # k => summary.Changes[i].Address # summary.Changes[k].Address)
              => \E group \in {DeleteMessages, ReplaceMessages, UpdateMessages} :
                     MessagesFor(summary.Changes[k]) \subseteq group

C28_Witness ==
    /\ Analyzed
    /\ Len(summary.Changes) = 2
    /\ FlagsSet(summary.Changes[1]) = {"IsReplace"}
    /\ summary.Changes[1].Address = "aws_db_instance.main"
    /\ FlagsSet(summary.Changes[2]) = {}
    /\ summary.ToReplace = 1 /\ summary.ToDelete = 0
    /\ MessagesOf(warnings) = <<DatabaseReplaced>>

C30_TwoIffCritical ==
    pc = "exited" =>
        (exitCode = 2 <=> \E j \in 1..Len(warnings) : warnings[j].Level = "critical")

C30_Witness ==
    /\ pc = "exited"
    /\ exitCode = 2
    /\ summary.ToUpdate = 1
    /\ summary.ToCreate = 0 /\ summary.ToDelete = 0 /\ summary.ToReplace = 0
    /\ MessagesOf(warnings) = <<EncryptionDisabled>>

\* C21: a run of infrasync that parsed its plan and wrote its output, in
\* the cli or in the markdown format, exits with 0 when no change is
\* counted, with 2 when changes are counted and a Warning is critical, and
\* with 1 otherwise.
C21_ExitCodeInEitherFormat ==
    pc = "exited" /\ flags.format \in {"cli", "markdown"} =>
        exitCode =
            IF /\ summary.ToCreate = 0 /\ summary.ToUpdate = 0 /\ summary.ToDelete = 0
               /\ summary.ToReplace = 0
            THEN 0
            ELSE IF \E j \in 1..Len(warnings) : warnings[j].Level = "critical" THEN 2
            ELSE 1

\* key is marked true in the BeforeSensitive or the AfterSensitive of c
MarkedTrue(c, key) ==
    \/ /\ c.BeforeSensitive.kind = "map"
       /\ key \in DOMAIN c.BeforeSensitive.kv
       /\ c.BeforeSensitive.kv[key] = JSONBool(TRUE)
    \/ /\ c.AfterSensitive.kind = "map"
       /\ key \in DOMAIN c.AfterSensitive.kv
       /\ c.AfterSensitive.kv[key] = JSONBool(TRUE)

\* The summary with another value for every sensitive attribute: a plan
\* that differs from the one of the run in its sensitive values only.
OtherValues(c, kv) ==
    [key \in DOMAIN kv |-> IF MarkedTrue(c, key) THEN JSONString("another value") ELSE kv[key]]

WithOtherSecrets(s) ==
    [s EXCEPT !.Changes =
        [k \in 1..Len(s.Changes) |->
            [s.Changes[k] EXCEPT !.Before.kv = OtherValues(s.Changes[k], @),
                                 !.After.kv = OtherValues(s.Changes[k], @)]]]

\* C22: the rendering of a run shows no value of a sensitive attribute,
\* under every formatter setting: what a run of the cli format writes is
\* what it writes for the plan with other values for the attributes marked
\* true in BeforeSensitive or AfterSensitive.
C22_SensitiveNeverShown ==
    pc = "exited" /\ flags.format = "cli" =>
        output = cliOutput(flags, WithOtherSecrets(summary), warnings)

\* The texts main wrote at the top level of the output.
Written == {output[j] : j \in {i \in 1..Len(output) : "text" \in DOMAIN output[i]}}

\* record k is the only one of the plan with its address
OnlyOfItsAddress(k) ==
    \A i \in 1..Len(plan.ResourceChanges) : i # k => RecordAt(i).Address # RecordAt(k).Address

\* C23: a record with actions [delete, create] is never shown as a delete:
\* infrasync lists it under the replace marker and not under the destroy
\* marker, and infrasyncli does not write its line with the delete marker.
C23_ReplaceNeverShownAsDelete ==
    \A k \in 1..Len(plan.ResourceChanges) :
        /\ RecordAt(k).Change.present
        /\ ActionsAt(k) = <<ActionDelete, ActionCreate>>
        /\ OnlyOfItsAddress(k)
        => /\ pc = "exited" /\ flags.format = "cli" =>
                 /\ Colorln("magenta", "  <U+27F3> " \o RecordAt(k).Address) \in Written
                 /\ Colorln("red", "  - " \o RecordAt(k).Address) \notin Written
           /\ pc \in {"cli_exited", "cli_panic"} =>
                 Colorln("red", "- " \o RecordAt(k).Address \o " (" \o RecordAt(k).Type \o ")")
                     \notin Written

====
